---- MODULE Spec2Model ----
(***************************************************************************)
(* The two placeholder ML sidecar services of algotrader_rust:             *)
(*   sidecar/server.py    GET /healthz, POST /predict (fixed score)        *)
(*   sidecar_py/main.py   GET /ping, POST /predict (random), POST /feature *)
(*                                                                         *)
(* A behaviour follows ONE server process (variable service says which     *)
(* application it runs).  Clients send requests concurrently; a request is *)
(* in flight from Arrive to Deliver.  Every handler is an `async def`      *)
(* without an await in its body, so body validation, the handler and the   *)
(* response validation of one request run as one step of the event loop   *)
(* (Handle), in any order relative to the other requests in flight.        *)
(*                                                                         *)
(* Numbers of the unit interval are counted in units of 1/Grid: the float  *)
(* 0.0 is 0, 0.5 is Grid/2 and 1.0 is Grid.                                *)
(***************************************************************************)
EXTENDS Integers, FiniteSets, Sequences, TLC

\* Resolution of the random generator: random() returns k/2^RandBits.
RandBits == 2
\* Largest number of keys of a submitted feature mapping.
MaxFeatures == 2

\* The generator states a process may start in are 0..MaxSeed (every state
\* of the generator is reached from each of them).
MaxSeed == 1

Grid == 2 ^ RandBits

Clients == {"c1", "c2"}

Services == {"sidecar", "sidecar_py"}

(* The installed framework decides what a return annotation means; the     *)
(* repository pins no version, so a process runs one of:                   *)
(*   fastapi_pre_0_89  the return annotation is not a response model       *)
(*   pydantic_v1       the annotation is the response model, lax coercion  *)
(*   pydantic_v2       the annotation is the response model, strict str    *)
Frameworks == {"fastapi_pre_0_89", "pydantic_v1", "pydantic_v2"}

\* service, framework: the application and the framework build of the process
\* seedState: the generator state the process started with (never written)
\* rngState:  the generator state of the `random` module, process-wide
\* slots:     per client, the request in flight and, once handled, its response
VARIABLES service, framework, seedState, rngState, slots

vars == <<service, framework, seedState, rngState, slots>>

----------------------------------------------------------------------------
(* Python values whose type the response validation looks at.              *)

PyStr(s) == [type |-> "str", repr |-> s]
PyBool(b) == [type |-> "bool", repr |-> IF b THEN "True" ELSE "False"]
PyInt(n) == [type |-> "int", repr |-> ToString(n)]

----------------------------------------------------------------------------
(* Requests.                                                               *)

AllFeatureNames == <<"a", "b", "c", "d">>
FeatureNames ==
    {AllFeatureNames[i] : i \in 1..(IF MaxFeatures < 4 THEN MaxFeatures ELSE 4)}
FeatureValues == {1}
FeatureMaps == UNION {[S -> FeatureValues] : S \in SUBSET FeatureNames}
EmptyMap == [n \in {} |-> 1]

\* The body of a request: absent (GET), not JSON, the JSON object {} without
\* a features key, {"features": "not-a-mapping"}, or {"features": {...}}.
Body(kind, features) == [kind |-> kind, features |-> features]
NoBody == Body("none", EmptyMap)
MalformedBodies ==
    {Body(k, EmptyMap) : k \in {"invalid_json", "features_missing", "features_not_mapping"}}
MappingBodies == {Body("mapping", f) : f \in FeatureMaps}
PostBodies == MalformedBodies \cup MappingBodies

Request(method, path, body) == [method |-> method, path |-> path, body |-> body]
Requests ==
    {Request("GET", p, NoBody) : p \in {"/healthz", "/ping"}}
    \cup {Request("POST", p, b) : p \in {"/predict", "/feature"}, b \in PostBodies}

----------------------------------------------------------------------------
(* Responses.                                                              *)

Response(status, body) == [status |-> status, body |-> body]
Ok(body) == Response(200, body)
NotFound == Response(404, [detail |-> "Not Found"])
\* The framework's answer to a body that is not JSON or fails the request model.
ValidationError == Response(422, [detail |-> "request validation error"])
InternalServerError == Response(500, [detail |-> "Internal Server Error"])

\* What handling one request yields: the response, the generator state the
\* process is left in, and the values the handler drew from the generator.
Result(resp, rng, draws) == [resp |-> resp, rng |-> rng, draws |-> draws]

----------------------------------------------------------------------------
(* The `random` module: one generator per process, seeded at import.  The  *)
(* Mersenne Twister is abstracted to a full-period generator over Grid     *)
(* states; random() advances the state and returns a value in [0, 1).      *)

random_random(state) ==
    LET next == (5 * state + 3) % Grid
    IN  [state |-> next, value |-> next]

\* A uniform() that can reach its upper end point b.
random_uniform_closed(a, b, state) ==
    LET r == random_random(state)
    IN  [state |-> r.state, value |-> a * Grid + (b - a) * (r.value + 1)]

\* uniform(a, b) = a + (b - a) * random()
random_uniform(a, b, state) ==
    LET r == random_random(state)
    IN  [state |-> r.state, value |-> a * Grid + (b - a) * r.value]

----------------------------------------------------------------------------
(* Request models: features: Dict[str, Any].                               *)

\* A features field with a default, so that a body without it validates.
FeaturePayload_optional(body) == body.kind \in {"mapping", "features_missing"}

\* A truthiness test on features, so that the empty mapping is refused.
FeaturePayload_nonempty(body) == body.kind = "mapping" /\ body.features # EmptyMap

FeaturePayload(body) == body.kind = "mapping"

PredictRequest(body) == body.kind = "mapping"

----------------------------------------------------------------------------
(* Response validation.                                                    *)

\* A returned dict against Dict[str, str].
DictStrStr(fw, content) ==
    CASE fw = "fastapi_pre_0_89" -> Ok(content)
      [] fw = "pydantic_v1" ->
            Ok([k \in DOMAIN content |-> PyStr(content[k].repr)])
      [] fw = "pydantic_v2" ->
            IF \A k \in DOMAIN content : content[k].type = "str"
            THEN Ok(content)
            ELSE InternalServerError

\* class PredictionResponse: success: bool, confidence: float, label: str
PredictionResponse(success, confidence, label) ==
    [success |-> success, confidence |-> confidence, label |-> label]

\* class PredictResponse: signals: Dict[str, float]
PredictResponse(signals) == [signals |-> signals]

----------------------------------------------------------------------------
(* sidecar/server.py                                                       *)

\* A stub that echoes the size of its input as the score.
sidecar_predict_count(req) ==
    PredictResponse([score |-> Cardinality(DOMAIN req.features)])

sidecar_predict(req) == PredictResponse([score |-> 0])

sidecar_healthz == [status |-> PyStr("ok")]

\* An application that keeps a module-level request counter and reports it.
sidecar_app_counter(fw, rng, request) ==
    CASE request.method = "GET" /\ request.path = "/healthz" ->
            Result(Ok(sidecar_healthz), rng, <<>>)
      [] request.method = "POST" /\ request.path = "/predict" ->
            IF ~PredictRequest(request.body)
            THEN Result(ValidationError, rng, <<>>)
            ELSE Result(Ok(PredictResponse([score |-> rng])), (rng + 1) % Grid, <<>>)
      [] OTHER -> Result(NotFound, rng, <<>>)

sidecar_app(fw, rng, request) ==
    CASE request.method = "GET" /\ request.path = "/healthz" ->
            Result(Ok(sidecar_healthz), rng, <<>>)
      [] request.method = "POST" /\ request.path = "/predict" ->
            IF ~PredictRequest(request.body)
            THEN Result(ValidationError, rng, <<>>)
            ELSE Result(Ok(sidecar_predict(request.body)), rng, <<>>)
      [] OTHER -> Result(NotFound, rng, <<>>)

----------------------------------------------------------------------------
(* sidecar_py/main.py                                                      *)

\* A liveness probe with another status text.
sidecar_py_ping_pong == [status |-> PyStr("pong")]

sidecar_py_ping == [status |-> PyStr("ok")]

\* A threshold test with >= in place of >.
sidecar_py_predict_ge(payload, confidence) ==
    LET label == IF 2 * confidence >= Grid THEN "buy" ELSE "sell"
    IN  PredictionResponse(TRUE, confidence, label)

\* A label that looks at the payload: no features, no "buy".
sidecar_py_predict_peek(payload, confidence) ==
    LET label == IF 2 * confidence > Grid /\ payload.features # EmptyMap
                 THEN "buy" ELSE "sell"
    IN  PredictionResponse(TRUE, confidence, label)

\* confidence is the value random.uniform(0, 1) returned
sidecar_py_predict(payload, confidence) ==
    LET label == IF 2 * confidence > Grid THEN "buy" ELSE "sell"
    IN  PredictionResponse(TRUE, confidence, label)

sidecar_py_feature(payload) ==
    [received |-> PyBool(TRUE),
     num_features |-> PyInt(Cardinality(DOMAIN payload.features))]

sidecar_py_app(fw, rng, request) ==
    CASE request.method = "GET" /\ request.path = "/ping" ->
            Result(DictStrStr(fw, sidecar_py_ping), rng, <<>>)
      [] request.method = "POST" /\ request.path = "/predict" ->
            IF ~FeaturePayload(request.body)
            THEN Result(ValidationError, rng, <<>>)
            ELSE LET u == random_uniform(0, 1, rng)
                 IN  Result(Ok(sidecar_py_predict(request.body, u.value)),
                            u.state, <<u.value>>)
      [] request.method = "POST" /\ request.path = "/feature" ->
            IF ~FeaturePayload(request.body)
            THEN Result(ValidationError, rng, <<>>)
            ELSE Result(DictStrStr(fw, sidecar_py_feature(request.body)), rng, <<>>)
      [] OTHER -> Result(NotFound, rng, <<>>)

----------------------------------------------------------------------------
(* The routes each application registers.                                  *)

Endpoint(method, path) == [method |-> method, path |-> path]

Endpoints(svc) ==
    IF svc = "sidecar"
    THEN {Endpoint("POST", "/predict"), Endpoint("GET", "/healthz")}
    ELSE {Endpoint("GET", "/ping"), Endpoint("POST", "/predict"),
          Endpoint("POST", "/feature")}

----------------------------------------------------------------------------
(* The server process.                                                     *)

App(svc, fw, rng, request) ==
    IF Endpoint(request.method, request.path) \notin Endpoints(svc)
    THEN Result(NotFound, rng, <<>>)
    ELSE IF svc = "sidecar"
         THEN sidecar_app(fw, rng, request)
         ELSE sidecar_py_app(fw, rng, request)

NoRequest == Request("", "", NoBody)
NoResponse == Response(0, [detail |-> ""])
Idle == [st |-> "idle", req |-> NoRequest, resp |-> NoResponse, draws |-> <<>>]

\* The `random` module seeds its generator from the operating system when it
\* is imported; the sidecar application imports no generator.
Seeds == 0..(IF MaxSeed < Grid THEN MaxSeed ELSE Grid - 1)

Init ==
    /\ service \in Services
    /\ framework \in Frameworks
    /\ seedState \in (IF service = "sidecar_py" THEN Seeds ELSE {0})
    /\ rngState = seedState
    /\ slots = [c \in Clients |-> Idle]

\* Client c sends a request; it is in flight, not yet handled.
Arrive(c, request) ==
    /\ slots[c].st = "idle"
    /\ slots' = [slots EXCEPT ![c] = [Idle EXCEPT !.st = "pending", !.req = request]]
    /\ UNCHANGED <<service, framework, seedState, rngState>>

\* The event loop runs c's request: validation, handler, response validation.
Handle(c) ==
    /\ slots[c].st = "pending"
    /\ LET r == App(service, framework, rngState, slots[c].req)
       IN  /\ slots' = [slots EXCEPT ![c] = [st |-> "done", req |-> slots[c].req,
                                            resp |-> r.resp, draws |-> r.draws]]
           /\ rngState' = r.rng
    /\ UNCHANGED <<service, framework, seedState>>

\* The response reaches client c, which may send again.
Deliver(c) ==
    /\ slots[c].st = "done"
    /\ slots' = [slots EXCEPT ![c] = Idle]
    /\ UNCHANGED <<service, framework, seedState, rngState>>

Next ==
    \/ \E c \in Clients, request \in Requests : Arrive(c, request)
    \/ \E c \in Clients : Handle(c)
    \/ \E c \in Clients : Deliver(c)

Spec == Init /\ [][Next]_vars

----------------------------------------------------------------------------
(* Vocabulary of the properties.                                           *)

Done(c) == slots[c].st = "done"
Req(c) == slots[c].req
Resp(c) == slots[c].resp
Routed(c) == Endpoint(Req(c).method, Req(c).path) \in Endpoints(service)
IsPost(c, path) == Req(c).method = "POST" /\ Req(c).path = path
HasMapping(c) == Req(c).body.kind = "mapping"
Malformed(c) == Req(c).method = "POST" /\ Req(c).body \in MalformedBodies
ValidPredict(c) == Done(c) /\ Routed(c) /\ IsPost(c, "/predict") /\ HasMapping(c)
ValidPyPredict(c) == ValidPredict(c) /\ service = "sidecar_py"
ValidPyFeature(c) ==
    Done(c) /\ service = "sidecar_py" /\ IsPost(c, "/feature") /\ HasMapping(c)
NumKeys(c) == Cardinality(DOMAIN Req(c).body.features)
PredictionFields == {"success", "confidence", "label"}

----------------------------------------------------------------------------
\* C1: for every sidecar_py POST /feature request whose features is a mapping
\* (the empty one included), the response is a success whose num_features is
\* the number of keys of the mapping and whose received is the boolean true.
CounterexampleC1 ==
    \A c \in Clients :
        ValidPyFeature(c) =>
            /\ Resp(c).status = 200
            /\ Resp(c).body = [received |-> PyBool(TRUE),
                               num_features |-> PyInt(NumKeys(c))]

----------------------------------------------------------------------------
\* C2: in every sidecar_py /predict response the label is "buy" exactly when
\* confidence > 0.5 and "sell" otherwise (0.5 itself gives "sell"), it is never
\* anything else, and it is computed from the confidence that is returned, which
\* is the value drawn.
TheoremC2 ==
    \A c \in Clients :
        ValidPyPredict(c) =>
            LET b == Resp(c).body
            IN  /\ b.label \in {"buy", "sell"}
                /\ (b.label = "buy") <=> (2 * b.confidence > Grid)
                /\ (b.label = "sell") <=> (2 * b.confidence <= Grid)
                /\ slots[c].draws = <<b.confidence>>

\* a confidence of exactly 0.5 was returned, labelled "sell", while another
\* response carries a confidence above 0.5, labelled "buy"
WitnessC2 ==
    \E c, d \in Clients :
        /\ ValidPyPredict(c) /\ ValidPyPredict(d)
        /\ 2 * Resp(c).body.confidence = Grid /\ Resp(c).body.label = "sell"
        /\ 2 * Resp(d).body.confidence > Grid /\ Resp(d).body.label = "buy"

----------------------------------------------------------------------------
\* C3: every GET /healthz (sidecar) and GET /ping (sidecar_py), after any
\* earlier requests, is answered 200 with the body {"status": "ok"}.
IsHealth(c) ==
    /\ Done(c)
    /\ Req(c).method = "GET"
    /\ Req(c).path = (IF service = "sidecar" THEN "/healthz" ELSE "/ping")

TheoremC3 ==
    \A c \in Clients :
        IsHealth(c) =>
            /\ Resp(c).status = 200
            /\ Resp(c).body = [status |-> PyStr("ok")]

\* /ping answered in a process that has handled /predict requests before and
\* has just failed another request
WitnessC3 ==
    \E c, d \in Clients :
        /\ service = "sidecar_py" /\ IsHealth(c) /\ Resp(c).status = 200
        /\ rngState # seedState
        /\ Done(d) /\ Resp(d).status >= 400

----------------------------------------------------------------------------
MalformedHandled(c) ==
    /\ slots[c].st = "pending"
    /\ slots'[c].st = "done"
    /\ slots[c].req.method = "POST"
    /\ slots[c].req.body \in MalformedBodies

----------------------------------------------------------------------------
\* C5: every request to an endpoint a service defines either succeeds with
\* the documented response shape or fails request validation with the client
\* error; nothing else (no server error, no other shape) is reachable.
DocumentedBody(c) ==
    LET b == Resp(c).body
    IN  CASE Req(c).method = "GET" -> b = [status |-> PyStr("ok")]
          [] IsPost(c, "/predict") /\ service = "sidecar" ->
                b = [signals |-> [score |-> 0]]
          [] IsPost(c, "/predict") /\ service = "sidecar_py" ->
                /\ DOMAIN b = PredictionFields
                /\ b.success = TRUE
                /\ b.confidence \in 0..Grid
                /\ b.label \in {"buy", "sell"}
          [] IsPost(c, "/feature") ->
                /\ DOMAIN b = {"received", "num_features"}
                /\ b.received = PyBool(TRUE)
                /\ b.num_features.type = "int"

CounterexampleC5 ==
    \A c \in Clients :
        (Done(c) /\ Routed(c)) =>
            \/ ~Malformed(c) /\ Resp(c).status = 200 /\ DocumentedBody(c)
            \/ Malformed(c) /\ Resp(c) = ValidationError

----------------------------------------------------------------------------
\* C6: in every sidecar_py /predict response 0.0 <= confidence < 1.0 and
\* success is true.
TheoremC6 ==
    \A c \in Clients :
        ValidPyPredict(c) =>
            /\ Resp(c).status = 200
            /\ 0 <= Resp(c).body.confidence
            /\ Resp(c).body.confidence < Grid
            /\ Resp(c).body.success = TRUE

\* the lowest and the highest value of the generator were both returned
WitnessC6 ==
    \E c, d \in Clients :
        /\ ValidPyPredict(c) /\ Resp(c).body.confidence = 0
        /\ ValidPyPredict(d) /\ Resp(d).body.confidence = Grid - 1

----------------------------------------------------------------------------
\* C7: POST /predict with the empty mapping {} is accepted and answered like
\* a non-empty one: {"signals": {"score": 0.0}} by sidecar, and a 200 with
\* success, confidence and label by sidecar_py.
EmptyPredict(c) == ValidPredict(c) /\ Req(c).body.features = EmptyMap

TheoremC7 ==
    \A c \in Clients :
        EmptyPredict(c) =>
            /\ Resp(c).status = 200
            /\ service = "sidecar" => Resp(c).body = [signals |-> [score |-> 0]]
            /\ service = "sidecar_py" =>
                /\ DOMAIN Resp(c).body = PredictionFields
                /\ Resp(c).body.success = TRUE
                /\ Resp(c).body.label \in {"buy", "sell"}
            /\ \A d \in Clients :
                ValidPredict(d) =>
                    /\ Resp(d).status = Resp(c).status
                    /\ DOMAIN Resp(d).body = DOMAIN Resp(c).body

\* an empty and a non-empty mapping were both answered by sidecar_py
WitnessC7 ==
    \E c, d \in Clients :
        /\ service = "sidecar_py"
        /\ EmptyPredict(c) /\ Resp(c).status = 200
        /\ ValidPredict(d) /\ NumKeys(d) > 0

----------------------------------------------------------------------------
\* C8: every valid sidecar POST /predict is answered 200 with exactly
\* {"signals": {"score": 0.0}}, whatever the features and the earlier requests.
TheoremC8 ==
    \A c \in Clients :
        (ValidPredict(c) /\ service = "sidecar") =>
            /\ Resp(c).status = 200
            /\ DOMAIN Resp(c).body = {"signals"}
            /\ DOMAIN Resp(c).body.signals = {"score"}
            /\ Resp(c).body.signals.score = 0

\* two different non-empty mappings were both answered by sidecar
WitnessC8 ==
    \E c, d \in Clients :
        /\ service = "sidecar"
        /\ ValidPredict(c) /\ ValidPredict(d)
        /\ NumKeys(c) = MaxFeatures /\ NumKeys(d) > 0
        /\ Req(c).body # Req(d).body

----------------------------------------------------------------------------
\* C9: the /predict response carries nothing of the payload: two valid
\* /predict requests handled with the same draw (sidecar_py) or with no draw
\* (sidecar) get the same response, and so would any other feature mapping
\* sent in place of the one that was, to a process about to make that draw.
TheoremC9 ==
    \A c \in Clients :
        ValidPredict(c) =>
            /\ \A d \in Clients :
                (ValidPredict(d) /\ slots[d].draws = slots[c].draws) =>
                    Resp(d) = Resp(c)
            /\ \E before \in 0..(Grid - 1) :
                \A f \in FeatureMaps :
                    LET other == App(service, framework, before,
                                     [Req(c) EXCEPT !.body.features = f])
                    IN  /\ other.draws = slots[c].draws
                        /\ other.resp = Resp(c)

\* two /predict requests with different features met the same draw
WitnessC9 ==
    \E c, d \in Clients :
        /\ ValidPyPredict(c) /\ ValidPyPredict(d)
        /\ Req(c).body.features # Req(d).body.features
        /\ NumKeys(c) # NumKeys(d)
        /\ slots[c].draws = slots[d].draws

----------------------------------------------------------------------------
\* C10 as stated: no handler reads or writes state another handler writes,
\* and every response is the one the request would get from the process if it
\* were the only request ever sent (handled in the state the process started
\* in).
Alone(c) == App(service, framework, seedState, Req(c))

CounterexampleC10 ==
    /\ \A c \in Clients : Done(c) => Resp(c) = Alone(c).resp
    /\ \A c, d \in Clients :
        (c # d /\ Done(c) /\ Done(d)) =>
            (slots[c].draws = <<>> \/ slots[d].draws = <<>>)

GeneratorWrittenBy(c) ==
    /\ slots[c].st = "pending"
    /\ slots'[c].st = "done"
    /\ service = "sidecar_py"
    /\ slots[c].req.method = "POST"
    /\ slots[c].req.path = "/predict"
    /\ slots[c].req.body.kind = "mapping"

\* C10 amended: the generator of the random module is the one piece of state
\* shared across requests; only a valid sidecar_py POST /predict reads and
\* advances it.  In every interleaving, every other response is the one the
\* request would get if it were the only request ever sent, and a sidecar_py
\* /predict response differs from that one at most in confidence and label.
TheoremC10 ==
    /\ [](\A c \in Clients :
            Done(c) =>
                IF ValidPyPredict(c)
                THEN /\ Resp(c).status = Alone(c).resp.status
                     /\ DOMAIN Resp(c).body = DOMAIN Alone(c).resp.body
                     /\ Resp(c).body.success = Alone(c).resp.body.success
                ELSE /\ Resp(c) = Alone(c).resp
                     /\ slots[c].draws = <<>>)
    /\ [][rngState' # rngState => \E c \in Clients : GeneratorWrittenBy(c)]_vars

\* a /predict answered otherwise than it would be alone, because the generator
\* had moved, next to a /feature request answered as it would be alone
WitnessC10 ==
    \E c, d \in Clients :
        /\ ValidPyPredict(c) /\ Resp(c) # Alone(c).resp
        /\ ValidPyFeature(d) /\ Resp(d) = Alone(d).resp
        /\ rngState # seedState

====
